---- MODULE Spec2Model ----
(***************************************************************************)
(* Model of the ptk text-location toolkit: Pos (src/pos.rs), Span          *)
(* (src/span.rs), Loc (src/loc.rs) and Source (src/src.rs).                *)
(*                                                                         *)
(* Integer widths are scaled: Width (u32) is WidthBits bits wide, IWidth   *)
(* (i32) is the signed type of the same width, usize is UsizeBits wide.    *)
(* The variable overflow_checks is the build profile: TRUE for a build     *)
(* with integer overflow checks (debug), FALSE for one where primitive     *)
(* arithmetic wraps (release).                                             *)
(***************************************************************************)
EXTENDS Integers, Sequences, FiniteSets, TLC

\* ---- bounds ----
WidthBits == 3
MaxLen == 4

UsizeBits == WidthBits + 1

RECURSIVE Pow2(_)
Pow2(n) == IF n = 0 THEN 1 ELSE 2 * Pow2(n - 1)

WidthMod == Pow2(WidthBits)
UsizeMod == Pow2(UsizeBits)
WidthMax == WidthMod - 1
IWidthMin == 0 - Pow2(WidthBits - 1)
IWidthMax == Pow2(WidthBits - 1) - 1

Width == 0 .. WidthMax
IWidth == IWidthMin .. IWidthMax
Usize == 0 .. (UsizeMod - 1)

NL == "\n"
Bytes == {"a", NL}
Texts == UNION {[1 .. n -> Bytes] : n \in 0 .. MaxLen}
Origins == {"Path", "Named", "Unknown"}

VARIABLES
    overflow_checks,  \* build profile
    origin,           \* Source.origin
    data,             \* Source.data
    line_indices,     \* Source.line_indices
    pos,              \* argument of the last pos_to_loc call
    loc,              \* result of the last pos_to_loc call
    op,               \* last Span operation
    self,             \* receiver of the last Span operation
    args,             \* arguments of the last Span operation
    res               \* result of the last Span operation

srcVars == <<origin, data, line_indices, pos, loc>>
spanVars == <<op, self, args, res>>
vars == <<overflow_checks, origin, data, line_indices, pos, loc, op, self, args, res>>

\* ---------------------------------------------------------------- pos.rs
from_u32(value) == value

from_usize(value) == value % WidthMod

as_u32(p) == p

as_usize(p) == p

\* ---------------------------------------------------------------- loc.rs
Loc_new(line, column) == [kind |-> "Some", line |-> line, column |-> column]

\* ---------------------------------------------------------------- src.rs
\* str::find('\n'): 0-based index of the first newline, -1 for None
RECURSIVE find(_, _)
find(s, i) ==
    IF i > Len(s) THEN 0 - 1
    ELSE IF s[i] = NL THEN i - 1
    ELSE find(s, i + 1)

RECURSIVE scan_loop(_, _, _)
scan_loop(rest, offset, acc) ==
    LET index == find(rest, 1) IN
    IF index < 0 THEN acc
    ELSE LET absolute_index == offset + index
             skip_to_index == index + 1
         IN scan_loop(SubSeq(rest, skip_to_index + 1, Len(rest)),
                      offset + skip_to_index,
                      Append(acc, absolute_index))

scan_lines(text) == scan_loop(text, 0, << >>)

\* slice::binary_search: <<TRUE, i>> for Ok(i), <<FALSE, i>> for Err(i);
\* indices are 0-based
RECURSIVE bsearch(_, _, _, _)
bsearch(s, x, left, right) ==
    IF left >= right THEN <<FALSE, left>>
    ELSE LET mid == left + ((right - left) \div 2) IN
         IF s[mid + 1] < x THEN bsearch(s, x, mid + 1, right)
         ELSE IF s[mid + 1] > x THEN bsearch(s, x, left, mid)
         ELSE <<TRUE, mid>>

binary_search(s, x) == bsearch(s, x, 0, Len(s))

NoLoc == [kind |-> "None", line |-> 0, column |-> 0]
LocPanic == [kind |-> "Panic", line |-> 0, column |-> 0]

\* pos_to_loc with the end-of-text test off by one
pos_to_loc_past_end(p) ==
    IF as_usize(p) > Len(data) THEN NoLoc
    ELSE LET line_index == binary_search(line_indices, as_usize(p))[2] IN
         IF line_index >= Len(line_indices) THEN LocPanic
         ELSE LET line_pos == line_indices[line_index + 1] IN
              IF as_usize(p) < line_pos
              THEN IF overflow_checks THEN LocPanic
                   ELSE Loc_new(line_index, (as_usize(p) - line_pos) % UsizeMod)
              ELSE Loc_new(line_index, as_usize(p) - line_pos)

pos_to_loc(p) ==
    IF as_usize(p) >= Len(data) THEN NoLoc
    ELSE LET line_index == binary_search(line_indices, as_usize(p))[2] IN
         IF line_index >= Len(line_indices) THEN LocPanic
         ELSE LET line_pos == line_indices[line_index + 1] IN
              IF as_usize(p) < line_pos
              THEN IF overflow_checks THEN LocPanic
                   ELSE Loc_new(line_index, (as_usize(p) - line_pos) % UsizeMod)
              ELSE Loc_new(line_index, as_usize(p) - line_pos)

NotCalled == [kind |-> "NotCalled", line |-> 0, column |-> 0]
NoOp == "none"
ZeroSpan == [low |-> 0, high |-> 0]
NoArgs == [p |-> 0, q |-> 0, amount |-> 0, other |-> ZeroSpan]
NoRes == [ok |-> TRUE, span |-> ZeroSpan]

Source_new(o, text) ==
    /\ origin' = o
    /\ data' = text
    /\ line_indices' = scan_lines(text)
    /\ pos' = 0
    /\ loc' = NotCalled
    /\ UNCHANGED <<overflow_checks, spanVars>>

PosToLoc(p) ==
    /\ pos' = p
    /\ loc' = pos_to_loc(p)
    /\ UNCHANGED <<overflow_checks, origin, data, line_indices, spanVars>>

InitSource ==
    /\ overflow_checks \in BOOLEAN
    /\ origin \in Origins
    /\ data \in Texts
    /\ line_indices = scan_lines(data)
    /\ pos = 0
    /\ loc = NotCalled
    /\ op = NoOp
    /\ self = ZeroSpan
    /\ args = NoArgs
    /\ res = NoRes

NextSource ==
    \/ \E o \in Origins, text \in Texts : Source_new(o, text)
    \/ \E p \in Width : PosToLoc(p)

SpecSource == InitSource /\ [][NextSource]_vars

\* --------------------------------------------------------------- span.rs
Min(a, b) == IF a <= b THEN a ELSE b

Max(a, b) == IF a >= b THEN a ELSE b

Ok(s) == [ok |-> TRUE, span |-> s]

Panic == [ok |-> FALSE, span |-> ZeroSpan]

\* Span::new without the swap
Span_new_no_swap(low, high) == [low |-> low, high |-> high]

Span_new(low, high) ==
    IF low > high THEN [low |-> high, high |-> low]
    ELSE [low |-> low, high |-> high]

with_low(s, low) == Span_new(low, s.high)

with_high(s, high) == Span_new(s.low, high)

is_negative(amount) == amount < 0

\* i32::abs: overflows on the minimum value (panic with overflow checks,
\* the minimum value itself without)
abs(amount) ==
    IF amount = IWidthMin
    THEN IF overflow_checks THEN [ok |-> FALSE, val |-> 0]
         ELSE [ok |-> TRUE, val |-> IWidthMin]
    ELSE [ok |-> TRUE, val |-> IF amount < 0 THEN 0 - amount ELSE amount]

\* `as u32` of an i32
cast_u32(v) == v % WidthMod

None == 0 - 1

checked_sub(a, b) == IF a - b < 0 THEN None ELSE a - b

checked_add(a, b) == IF a + b > WidthMax THEN None ELSE a + b

\* plain `-` and `+` on u32: panic with overflow checks, wrap without
plain_sub(a, b) ==
    IF a - b < 0 THEN (IF overflow_checks THEN None ELSE (a - b) % WidthMod)
    ELSE a - b

plain_add(a, b) ==
    IF a + b > WidthMax THEN (IF overflow_checks THEN None ELSE (a + b) % WidthMod)
    ELSE a + b

\* shift_by that ignores the sign of the amount
shift_by_unsigned(s, amount) ==
    LET a == abs(amount) IN
    IF ~a.ok THEN Panic
    ELSE LET abs_amount == cast_u32(a.val)
             low == checked_add(as_u32(s.low), abs_amount)
             high == checked_add(as_u32(s.high), abs_amount)
         IN IF low = None \/ high = None THEN Panic
            ELSE Ok(Span_new(from_u32(low), from_u32(high)))

shift_by(s, amount) ==
    LET a == abs(amount) IN
    IF ~a.ok THEN Panic
    ELSE LET abs_amount == cast_u32(a.val)
             low == IF is_negative(amount) THEN checked_sub(as_u32(s.low), abs_amount)
                    ELSE checked_add(as_u32(s.low), abs_amount)
             high == IF is_negative(amount) THEN checked_sub(as_u32(s.high), abs_amount)
                     ELSE checked_add(as_u32(s.high), abs_amount)
         IN IF low = None \/ high = None THEN Panic
            ELSE Ok(Span_new(from_u32(low), from_u32(high)))

unchecked_shift_by(s, amount) ==
    LET a == abs(amount) IN
    IF ~a.ok THEN Panic
    ELSE LET abs_amount == cast_u32(a.val)
             low == IF is_negative(amount) THEN plain_sub(as_u32(s.low), abs_amount)
                    ELSE plain_add(as_u32(s.low), abs_amount)
             high == IF is_negative(amount) THEN plain_sub(as_u32(s.high), abs_amount)
                     ELSE plain_add(as_u32(s.high), abs_amount)
         IN IF low = None \/ high = None THEN Panic
            ELSE Ok(Span_new(from_u32(low), from_u32(high)))

\* shift_low_by that moves the high endpoint as well
shift_low_by_both(s, amount) ==
    LET a == abs(amount) IN
    IF ~a.ok THEN Panic
    ELSE LET abs_amount == cast_u32(a.val)
             low == IF is_negative(amount) THEN checked_sub(as_u32(s.low), abs_amount)
                    ELSE checked_add(as_u32(s.low), abs_amount)
             high == IF is_negative(amount) THEN checked_sub(as_u32(s.high), abs_amount)
                     ELSE checked_add(as_u32(s.high), abs_amount)
         IN IF low = None \/ high = None THEN Panic
            ELSE Ok(Span_new(from_u32(low), from_u32(high)))

shift_low_by(s, amount) ==
    LET a == abs(amount) IN
    IF ~a.ok THEN Panic
    ELSE LET abs_amount == cast_u32(a.val)
             low == IF is_negative(amount) THEN checked_sub(as_u32(s.low), abs_amount)
                    ELSE checked_add(as_u32(s.low), abs_amount)
         IN IF low = None THEN Panic
            ELSE Ok(Span_new(from_u32(low), s.high))

unchecked_shift_low_by(s, amount) ==
    LET a == abs(amount) IN
    IF ~a.ok THEN Panic
    ELSE LET abs_amount == cast_u32(a.val)
             low == IF is_negative(amount) THEN plain_sub(as_u32(s.low), abs_amount)
                    ELSE plain_add(as_u32(s.low), abs_amount)
         IN IF low = None THEN Panic
            ELSE Ok(Span_new(from_u32(low), s.high))

shift_high_by(s, amount) ==
    LET a == abs(amount) IN
    IF ~a.ok THEN Panic
    ELSE LET abs_amount == cast_u32(a.val)
             high == IF is_negative(amount) THEN checked_sub(as_u32(s.high), abs_amount)
                     ELSE checked_add(as_u32(s.high), abs_amount)
         IN IF high = None THEN Panic
            ELSE Ok(Span_new(s.low, from_u32(high)))

unchecked_shift_high_by(s, amount) ==
    LET a == abs(amount) IN
    IF ~a.ok THEN Panic
    ELSE LET abs_amount == cast_u32(a.val)
             high == IF is_negative(amount) THEN plain_sub(as_u32(s.high), abs_amount)
                     ELSE plain_add(as_u32(s.high), abs_amount)
         IN IF high = None THEN Panic
            ELSE Ok(Span_new(s.low, from_u32(high)))

\* union that keeps the receiver's high endpoint
union_keep_high(s, other) ==
    LET low == Min(as_u32(s.low), as_u32(other.low))
        high == as_u32(s.high)
    IN Span_new(from_u32(low), from_u32(high))

union(s, other) ==
    LET low == Min(as_u32(s.low), as_u32(other.low))
        high == Max(as_u32(s.high), as_u32(other.high))
    IN Span_new(from_u32(low), from_u32(high))

\* From<Range<P>> for Span, P = usize
from_range(start, end) == Span_new(from_usize(start), from_usize(end))

\* ---- Span operations as steps; a panic ends the run
Apply(name, receiver, a, r) ==
    /\ res.ok
    /\ op' = name
    /\ self' = receiver
    /\ args' = a
    /\ res' = r
    /\ UNCHANGED <<overflow_checks, srcVars>>

New(l, h) ==
    Apply("new", ZeroSpan, [NoArgs EXCEPT !.p = l, !.q = h], Ok(Span_new(l, h)))

FromRange(start, end) ==
    Apply("from_range", ZeroSpan, [NoArgs EXCEPT !.p = start, !.q = end],
          Ok(from_range(start, end)))

WithLow(p) ==
    Apply("with_low", res.span, [NoArgs EXCEPT !.p = p], Ok(with_low(res.span, p)))

WithHigh(p) ==
    Apply("with_high", res.span, [NoArgs EXCEPT !.p = p], Ok(with_high(res.span, p)))

ShiftBy(d) ==
    Apply("shift_by", res.span, [NoArgs EXCEPT !.amount = d], shift_by(res.span, d))

UncheckedShiftBy(d) ==
    Apply("unchecked_shift_by", res.span, [NoArgs EXCEPT !.amount = d],
          unchecked_shift_by(res.span, d))

ShiftLowBy(d) ==
    Apply("shift_low_by", res.span, [NoArgs EXCEPT !.amount = d],
          shift_low_by(res.span, d))

UncheckedShiftLowBy(d) ==
    Apply("unchecked_shift_low_by", res.span, [NoArgs EXCEPT !.amount = d],
          unchecked_shift_low_by(res.span, d))

ShiftHighBy(d) ==
    Apply("shift_high_by", res.span, [NoArgs EXCEPT !.amount = d],
          shift_high_by(res.span, d))

UncheckedShiftHighBy(d) ==
    Apply("unchecked_shift_high_by", res.span, [NoArgs EXCEPT !.amount = d],
          unchecked_shift_high_by(res.span, d))

Union(l, h) ==
    LET other == Span_new(l, h) IN
    Apply("union", res.span, [NoArgs EXCEPT !.other = other], Ok(union(res.span, other)))

InitSpan ==
    /\ overflow_checks \in BOOLEAN
    /\ origin = "Unknown"
    /\ data = << >>
    /\ line_indices = scan_lines(data)
    /\ pos = 0
    /\ loc = NotCalled
    /\ \E l \in Width, h \in Width :
          /\ op = "new"
          /\ self = ZeroSpan
          /\ args = [NoArgs EXCEPT !.p = l, !.q = h]
          /\ res = Ok(Span_new(l, h))

NextSpan ==
    \/ \E l \in Width, h \in Width : New(l, h)
    \/ \E start \in Usize, end \in Usize : FromRange(start, end)
    \/ \E p \in Width : WithLow(p)
    \/ \E p \in Width : WithHigh(p)
    \/ \E d \in IWidth : ShiftBy(d)
    \/ \E d \in IWidth : UncheckedShiftBy(d)
    \/ \E d \in IWidth : ShiftLowBy(d)
    \/ \E d \in IWidth : UncheckedShiftLowBy(d)
    \/ \E d \in IWidth : ShiftHighBy(d)
    \/ \E d \in IWidth : UncheckedShiftHighBy(d)
    \/ \E l \in Width, h \in Width : Union(l, h)

SpecSpan == InitSpan /\ [][NextSpan]_vars

\* --------------------------------------------------- properties of Span
\* C6: Span::new(l, h) is (l, h) when l <= h and (h, l) otherwise; every
\* Span produced by new / From<Range> and any sequence of with_low,
\* with_high, the shifts, their unchecked variants and union has
\* low <= high; with_low(p) / with_high(p) pair p with the retained
\* endpoint, swapped when p crosses it.
C6_Normalized ==
    /\ res.ok => res.span.low <= res.span.high
    /\ op = "new" =>
          res.span = IF args.p <= args.q THEN [low |-> args.p, high |-> args.q]
                     ELSE [low |-> args.q, high |-> args.p]
    /\ op = "with_low" =>
          res.span = IF args.p <= self.high THEN [low |-> args.p, high |-> self.high]
                     ELSE [low |-> self.high, high |-> args.p]
    /\ op = "with_high" =>
          res.span = IF self.low <= args.p THEN [low |-> self.low, high |-> args.p]
                     ELSE [low |-> args.p, high |-> self.low]

C6_Witness ==
    /\ op = "with_low"
    /\ self.low < self.high
    /\ args.p > self.high
    /\ res = Ok([low |-> self.high, high |-> args.p])

\* C7: for normalized spans a and b, a.union(b) has low = min of the lows
\* and high = max of the highs; so a.union(b) = b.union(a) and
\* a.union(a) = a.
C7_UnionMinMax ==
    op = "union" =>
        /\ res.ok
        /\ res.span.low = Min(self.low, args.other.low)
        /\ res.span.high = Max(self.high, args.other.high)
        /\ res.span = union(args.other, self)
        /\ union(self, self) = self

C7_Witness ==
    /\ op = "union"
    /\ self.low < self.high
    /\ self.high < args.other.low
    /\ args.other.low < args.other.high
    /\ res = Ok([low |-> self.low, high |-> args.other.high])

\* C8: a.shift_by(d) returns (a.low + d, a.high + d) exactly when both sums
\* are representable in Width, and fails exactly when one is not; the
\* minimum amount included.
C8_ShiftByExact ==
    op = "shift_by" =>
        LET lo == self.low + args.amount
            hi == self.high + args.amount
        IN IF lo \in Width /\ hi \in Width
           THEN res = Ok([low |-> lo, high |-> hi])
           ELSE ~res.ok

\* `-d` on IWidth as the caller computes it
neg(d) ==
    IF d = IWidthMin
    THEN IF overflow_checks THEN [ok |-> FALSE, val |-> 0]
         ELSE [ok |-> TRUE, val |-> IWidthMin]
    ELSE [ok |-> TRUE, val |-> 0 - d]

ShiftBack(s, d) == IF neg(d).ok THEN shift_by(s, neg(d).val) ELSE Panic

\* C9: whenever a.shift_by(d) does not overflow or underflow,
\* a.shift_by(d).shift_by(-d) = a.
C9_RoundTrip ==
    (op = "shift_by" /\ res.ok) => ShiftBack(res.span, args.amount) = Ok(self)

\* C9 as amended: the round trip holds for every amount other than the
\* minimum of IWidth (whose negation is not an IWidth).
C9_RoundTripNegatable ==
    (op = "shift_by" /\ res.ok /\ args.amount # IWidthMin) =>
        shift_by(res.span, 0 - args.amount) = Ok(self)

C9_Witness ==
    /\ op = "shift_by"
    /\ res.ok
    /\ args.amount < 0
    /\ args.amount # IWidthMin
    /\ self.low < self.high
    /\ res.span.low = self.low + args.amount
    /\ shift_by(res.span, 0 - args.amount) = Ok(self)

\* C10: a.shift_low_by(d) has low = a.low + d and high = a.high, and
\* a.shift_high_by(d) has high = a.high + d and low = a.low, whenever the
\* shift does not fail.
C10_OnlyNamedEndpoint ==
    /\ (op = "shift_low_by" /\ res.ok) =>
          res.span = [low |-> self.low + args.amount, high |-> self.high]
    /\ (op = "shift_high_by" /\ res.ok) =>
          res.span = [low |-> self.low, high |-> self.high + args.amount]

\* C10 as amended: the shifted endpoint and the retained endpoint are the
\* two endpoints of the result, in ascending order (swapped when the shifted
\* endpoint crosses the retained one).
C10_NamedEndpointNormalized ==
    /\ (op = "shift_low_by" /\ res.ok) =>
          /\ res.span.low = Min(self.low + args.amount, self.high)
          /\ res.span.high = Max(self.low + args.amount, self.high)
    /\ (op = "shift_high_by" /\ res.ok) =>
          /\ res.span.low = Min(self.low, self.high + args.amount)
          /\ res.span.high = Max(self.low, self.high + args.amount)

C10_Witness ==
    /\ op = "shift_low_by"
    /\ res.ok
    /\ self.low + args.amount > self.high
    /\ res.span = [low |-> self.high, high |-> self.low + args.amount]

\* ------------------------------------------------- properties of Source
\* linear-scan reference for pos_to_loc
NewlineOffsets(text) == {i \in 0 .. (Len(text) - 1) : text[i + 1] = NL}

SetMax(S) == CHOOSE m \in S : \A x \in S : x <= m

RefLine(text, p) == Cardinality({i \in NewlineOffsets(text) : i < p})

RefLineStart(text, p) ==
    LET below == {i \in NewlineOffsets(text) : i < p} IN
    IF below = {} THEN 0 ELSE SetMax(below) + 1

RefLoc(text, p) == Loc_new(RefLine(text, p), p - RefLineStart(text, p))

Called == loc.kind # "NotCalled"

StrictlyIncreasing(s) == \A i \in 1 .. (Len(s) - 1) : s[i] < s[i + 1]

\* C1: for every text and every offset below the text length, pos_to_loc
\* returns the Location a linear scan computes (line = newlines strictly
\* below pos, column = pos minus the start of that line).
C1_MatchesLinearScan ==
    (Called /\ pos < Len(data)) => loc = RefLoc(data, pos)

\* C2: pos_to_loc never hard-faults: it returns a Location or the absence
\* value, never indexes the line table out of bounds and never underflows
\* in pos minus line start (a column above pos is a wrapped subtraction).
C2_NeverFaults ==
    Called => /\ loc.kind \in {"None", "Some"}
              /\ loc.kind = "Some" => loc.column <= pos

\* C3: for every Source and every Pos at or past the text length
\* (the empty text and offset = length included) pos_to_loc returns None.
C3_PastEndIsNone ==
    (Called /\ pos >= Len(data)) => loc = NoLoc

C3_Witness ==
    /\ Called
    /\ Len(data) > 0
    /\ pos = Len(data)
    /\ loc = NoLoc

\* C4: the line-start table is strictly increasing, starts with 0, and every
\* further entry is the offset just after a newline, one per newline in
\* order (the entry after a trailing newline may be left out).
C4_LineStartTable ==
    /\ Len(line_indices) >= 1
    /\ line_indices[1] = 0
    /\ StrictlyIncreasing(line_indices)
    /\ LET starts == {line_indices[k] : k \in 2 .. Len(line_indices)} IN
       /\ starts \subseteq {o + 1 : o \in NewlineOffsets(data)}
       /\ {o + 1 : o \in {n \in NewlineOffsets(data) : n + 1 < Len(data)}}
              \subseteq starts

\* C5: scan_lines(text) is 0 followed by the offset of every newline byte of
\* the text in ascending order.
C5_ScanLinesZeroThenNewlines ==
    /\ Len(line_indices) = 1 + Cardinality(NewlineOffsets(data))
    /\ line_indices[1] = 0
    /\ StrictlyIncreasing(SubSeq(line_indices, 2, Len(line_indices)))
    /\ {line_indices[k] : k \in 2 .. Len(line_indices)} = NewlineOffsets(data)

====
